---- MODULE Spec2Model ----
(***************************************************************************)
(* Frame loop of iced_child_win (src/main.rs): a winit event loop driven   *)
(* through run_return, forwarding window events to an iced program state   *)
(* and drawing one wgpu frame per redraw request.                          *)
(*                                                                         *)
(* The window system is the environment: between two ticks it changes the  *)
(* window and queues the matching window events; a tick then delivers      *)
(* NewEvents, every queued window event, MainEventsCleared,               *)
(* RedrawRequested and RedrawEventsCleared to the closure, in that order.  *)
(***************************************************************************)
EXTENDS Integers, Sequences, FiniteSets

\* ------------------------------------------------------------------ bounds
\* most window events the window system queues for one tick
MaxPending == 2

\* ---------------------------------------------------------------- domains
\* physical sizes the window can take; the first is the initial frame
Sizes == {<<1000, 800>>, <<800, 600>>, <<500, 400>>}
\* display scale factors
Scales == {1, 2}
\* modifier-key states; 0 is ModifiersState::default()
Mods == {0, 1, 2}

NoSize == <<0, 0>>
None == [tag |-> "None"]
NoFrame == [tag |-> "NoFrame"]

\* NSRect frame of the parent window, in points
FrameWidth == 500
FrameHeight == 400

\* ------------------------------------------------------------------ events
WinEvent(t, s, v) == [type |-> t, size |-> s, val |-> v]
ModifiersChanged(m) == WinEvent("ModifiersChanged", NoSize, m)
Resized(s) == WinEvent("Resized", s, 0)
CloseRequested == WinEvent("CloseRequested", NoSize, 0)
ScaleFactorChanged(f) == WinEvent("ScaleFactorChanged", NoSize, f)
KeyboardInput == WinEvent("KeyboardInput", NoSize, 0)

\* ------------------------------------------------------------- pure helpers
\* Viewport::with_physical_size: the logical size is physical / scale
with_physical_size(size, scale) ==
    [physical_size |-> size,
     scale_factor |-> scale,
     logical_size |-> <<size[1] \div scale, size[2] \div scale>>]

\* ControlFlow::Exit is sticky inside run_return: once the closure has set
\* it, a later assignment of Poll is reset to Exit by the event loop.
SetControlFlow(cf, new) == IF cf = "Exit" THEN "Exit" ELSE new

\* iced_winit::conversion::window_event: Some(iced event) or None; whether a
\* translation exists is decided by the library (some)
window_event(event, scale, mods, some) ==
    IF some
    THEN [tag |-> "Some", event |-> event, scale_factor |-> scale, modifiers |-> mods]
    ELSE None

VARIABLES
    pc,               \* next event the loop delivers / position in main
    window,           \* the native window: inner_size, scale_factor
    pending,          \* window events queued for the next tick
    modifiers,        \* let mut modifiers
    viewport,         \* let mut viewport
    swap_chain,       \* size the current swap chain was created with
    resized,          \* let mut resized
    is_close,         \* let mut is_close
    control_flow,     \* *control_flow inside run_return
    state,            \* program::State: queued events and last update size
    redraw_requested, \* window.request_redraw() pending
    translated,       \* arguments of the latest conversion::window_event call
    frame,            \* the calls of the latest RedrawRequested handling
    latest_modifiers, \* value of the latest ModifiersChanged event handled
    last_resize,      \* size and scale factor at the latest Resized handled
    dirty,            \* a Resized was handled since the swap chain was created
    close_handled,    \* a CloseRequested event has been handled
    loop_destroyed,   \* run_return has reported LoopDestroyed
    tick_resizes,     \* sizes of the Resized events handled in this tick
    tick_recreations, \* swap chain creations in this tick
    tick_updates      \* state.update calls in this tick

vars == <<pc, window, pending, modifiers, viewport, swap_chain, resized,
          is_close, control_flow, state, redraw_requested, translated, frame,
          latest_modifiers, last_resize, dirty, close_handled, loop_destroyed,
          tick_resizes, tick_recreations, tick_updates>>

prog == <<modifiers, viewport, swap_chain, resized, is_close, control_flow,
          state, redraw_requested, translated, frame>>
ghost == <<latest_modifiers, last_resize, dirty, close_handled, loop_destroyed>>
tick == <<tick_resizes, tick_recreations, tick_updates>>

\* ------------------------------------------------------------------- Init
\* main() up to the first run_return call
Init ==
    /\ \E f \in Scales :
         /\ window = [inner_size |-> <<FrameWidth * f, FrameHeight * f>>,
                      scale_factor |-> f]
         /\ viewport = with_physical_size(<<FrameWidth * f, FrameHeight * f>>, f)
         /\ swap_chain = <<FrameWidth * f, FrameHeight * f>>
         /\ state = [events |-> <<>>, size |-> <<FrameWidth, FrameHeight>>]
         /\ last_resize = [size |-> <<FrameWidth * f, FrameHeight * f>>, scale |-> f]
    /\ modifiers = 0
    /\ resized = FALSE
    /\ is_close = FALSE
    /\ control_flow = "Poll"
    /\ pending = <<>>
    /\ redraw_requested = FALSE
    /\ translated = None
    /\ frame = NoFrame
    /\ latest_modifiers = 0
    /\ dirty = FALSE
    /\ close_handled = FALSE
    /\ loop_destroyed = FALSE
    /\ tick_resizes = <<>>
    /\ tick_recreations = 0
    /\ tick_updates = 0
    /\ pc = "NewEvents"

\* ------------------------------------------------------------ environment
\* The window system acts while the loop is between two ticks.
CanQueue == pc = "NewEvents" /\ Len(pending) < MaxPending

OSResize ==
    /\ CanQueue
    /\ \E s \in Sizes :
         /\ window' = [window EXCEPT !.inner_size = s]
         /\ pending' = Append(pending, Resized(s))
    /\ UNCHANGED <<pc, prog, ghost, tick>>

OSScaleFactor ==
    /\ CanQueue
    /\ \E f \in Scales \ {window.scale_factor} :
         /\ window' = [window EXCEPT !.scale_factor = f]
         /\ pending' = Append(pending, ScaleFactorChanged(f))
    /\ UNCHANGED <<pc, prog, ghost, tick>>

OSModifiers ==
    /\ CanQueue
    /\ \E m \in Mods : pending' = Append(pending, ModifiersChanged(m))
    /\ UNCHANGED <<pc, window, prog, ghost, tick>>

OSKeyboardInput ==
    /\ CanQueue
    /\ pending' = Append(pending, KeyboardInput)
    /\ UNCHANGED <<pc, window, prog, ghost, tick>>

OSCloseRequest ==
    /\ CanQueue
    /\ pending' = Append(pending, CloseRequested)
    /\ UNCHANGED <<pc, window, prog, ghost, tick>>

\* ------------------------------------------------------------ the closure
\* Event::NewEvents: the catch-all arm
NewEvents ==
    /\ pc = "NewEvents"
    /\ control_flow' = SetControlFlow(control_flow, "Poll")
    /\ pc' = "WindowEvent"
    /\ UNCHANGED <<window, pending, modifiers, viewport, swap_chain, resized,
                   is_close, state, redraw_requested, translated, frame,
                   ghost, tick>>

\* the match on the window event: values after the matching arm
ModifiersAfter(event) ==
    IF event.type = "ModifiersChanged" THEN event.val ELSE modifiers

\* a plausible slip: the resize arm does not recompute the viewport
ViewportAfterKept(event) == viewport

ViewportAfter(event) ==
    IF event.type = "Resized"
    THEN with_physical_size(event.size, window.scale_factor)
    ELSE viewport

\* a plausible slip: the resize arm does not mark the surface dirty
ResizedAfterKept(event) == resized

ResizedAfter(event) ==
    IF event.type = "Resized" THEN TRUE ELSE resized

IsCloseAfter(event) ==
    IF event.type = "CloseRequested" THEN TRUE ELSE is_close

\* a plausible slip: a key press also asks the loop to exit
ControlFlowAfterKey(event) ==
    IF event.type \in {"CloseRequested", "KeyboardInput"} THEN "Exit" ELSE control_flow

\* a plausible slip: the close arm sets the flag but not the control flow
ControlFlowAfterNoExit(event) == control_flow

ControlFlowAfter(event) ==
    IF event.type = "CloseRequested" THEN "Exit" ELSE control_flow

\* a plausible slip: the translation reads the modifiers before the match
ConversionModifiersBefore(event) == modifiers

\* the modifiers handed to conversion::window_event, read after the match
ConversionModifiers(event) == ModifiersAfter(event)

\* Event::WindowEvent: the match, then the translation and queue_event
WindowEventArm ==
    /\ pc = "WindowEvent"
    /\ pending # <<>>
    /\ LET event == Head(pending) IN
       /\ pending' = Tail(pending)
       /\ modifiers' = ModifiersAfter(event)
       /\ viewport' = ViewportAfter(event)
       /\ resized' = ResizedAfter(event)
       /\ is_close' = IsCloseAfter(event)
       /\ control_flow' = ControlFlowAfter(event)
       /\ \E some \in BOOLEAN :
            LET iced == window_event(event, window.scale_factor,
                                     ConversionModifiers(event), some) IN
            /\ translated' = [event |-> event,
                              scale_factor |-> window.scale_factor,
                              modifiers |-> ConversionModifiers(event),
                              result |-> iced]
            /\ state' = IF iced = None THEN state
                        ELSE [state EXCEPT !.events = Append(@, iced)]
       /\ latest_modifiers' = IF event.type = "ModifiersChanged"
                              THEN event.val ELSE latest_modifiers
       /\ last_resize' = IF event.type = "Resized"
                         THEN [size |-> event.size, scale |-> window.scale_factor]
                         ELSE last_resize
       /\ dirty' = IF event.type = "Resized" THEN TRUE ELSE dirty
       /\ close_handled' = IF event.type = "CloseRequested" THEN TRUE ELSE close_handled
       /\ tick_resizes' = IF event.type = "Resized"
                          THEN Append(tick_resizes, event.size) ELSE tick_resizes
    /\ UNCHANGED <<pc, window, swap_chain, redraw_requested, frame,
                   loop_destroyed, tick_recreations, tick_updates>>

\* the logical size state.update is called with
UpdateSize == viewport.logical_size

\* Event::MainEventsCleared: update iced, request a redraw
MainEventsCleared ==
    /\ pc = "WindowEvent"
    /\ pending = <<>>
    /\ state' = [events |-> <<>>, size |-> UpdateSize]
    /\ redraw_requested' = TRUE
    /\ tick_updates' = tick_updates + 1
    /\ pc' = "RedrawRequested"
    /\ UNCHANGED <<window, pending, modifiers, viewport, swap_chain, resized,
                   is_close, control_flow, translated, frame, ghost,
                   tick_resizes, tick_recreations>>

\* if resized { swap_chain = device.create_swap_chain(..) }
Recreate == resized

\* a plausible slip: the surface is sized to the first size reported in the tick
CreateSizeFirstReported ==
    IF tick_resizes # <<>> THEN tick_resizes[1] ELSE window.inner_size

\* let size = window.inner_size(): the size the swap chain is recreated with
CreateSize == window.inner_size

\* value of resized after the draw
ResizedAfterDraw == resized

\* what a draw does after swap_chain.get_next_texture() returned (ok) or
\* failed: expect("Next frame") panics
CallsAfterAcquire(ok) ==
    IF ok
    THEN <<"get_next_texture", "begin_render_pass", "draw", "submit", "set_cursor_icon">>
    ELSE <<"get_next_texture">>

\* a plausible slip: the failure is swallowed and the loop goes on
PcAfterAcquireSkip(ok) == "RedrawEventsCleared"

\* expect("Next frame"): the closure goes on, or the process aborts
PcAfterAcquire(ok) == IF ok THEN "RedrawEventsCleared" ELSE "panicked"

\* Event::RedrawRequested
RedrawRequested ==
    /\ pc = "RedrawRequested"
    /\ redraw_requested
    /\ \E ok \in BOOLEAN :
         LET surface == IF Recreate THEN CreateSize ELSE swap_chain IN
         /\ swap_chain' = surface
         /\ tick_recreations' = IF Recreate THEN tick_recreations + 1
                                ELSE tick_recreations
         /\ dirty' = IF Recreate THEN FALSE ELSE dirty
         /\ resized' = ResizedAfterDraw
         /\ frame' = [tag |-> "Frame",
                      surface |-> surface,
                      recreated |-> Recreate,
                      acquired |-> ok,
                      was_dirty |-> dirty,
                      window |-> window,
                      viewport |-> viewport,
                      calls |-> CallsAfterAcquire(ok)]
         /\ pc' = PcAfterAcquire(ok)
    /\ redraw_requested' = FALSE
    /\ UNCHANGED <<window, pending, modifiers, viewport, is_close,
                   control_flow, state, translated, latest_modifiers,
                   last_resize, close_handled, loop_destroyed, tick_resizes,
                   tick_updates>>

\* Event::RedrawEventsCleared: the catch-all arm; the tick ends here and
\* run_return stops the loop if the control flow is Exit
RedrawEventsCleared ==
    /\ pc = "RedrawEventsCleared"
    /\ control_flow' = SetControlFlow(control_flow, "Poll")
    /\ pc' = IF control_flow' = "Exit" THEN "LoopDestroyed" ELSE "NewEvents"
    /\ frame' = NoFrame
    /\ tick_resizes' = <<>>
    /\ tick_recreations' = 0
    /\ tick_updates' = 0
    /\ UNCHANGED <<window, pending, modifiers, viewport, swap_chain, resized,
                   is_close, state, redraw_requested, translated, ghost>>

\* Event::LoopDestroyed: the catch-all arm, then run_return returns
LoopDestroyed ==
    /\ pc = "LoopDestroyed"
    /\ control_flow' = SetControlFlow(control_flow, "Poll")
    /\ loop_destroyed' = TRUE
    /\ pc' = "returned"
    /\ UNCHANGED <<window, pending, modifiers, viewport, swap_chain, resized,
                   is_close, state, redraw_requested, translated, frame,
                   latest_modifiers, last_resize, dirty, close_handled, tick>>

\* a plausible slip: the loop does not test the flag
LoopConditionAlways == TRUE

\* while !is_close
LoopCondition == ~is_close

\* the while loop: leave main, or call run_return again
WhileLoop ==
    /\ pc = "returned"
    /\ IF LoopCondition
       THEN /\ pc' = "NewEvents"
            /\ control_flow' = "Poll"
       ELSE /\ pc' = "exited"
            /\ UNCHANGED control_flow
    /\ UNCHANGED <<window, pending, modifiers, viewport, swap_chain, resized,
                   is_close, state, redraw_requested, translated, frame,
                   ghost, tick>>

\* ------------------------------------------------------------------- Next
Closure ==
    \/ NewEvents
    \/ WindowEventArm
    \/ MainEventsCleared
    \/ RedrawRequested
    \/ RedrawEventsCleared
    \/ LoopDestroyed
    \/ WhileLoop

Next ==
    \/ OSResize
    \/ OSScaleFactor
    \/ OSModifiers
    \/ OSKeyboardInput
    \/ OSCloseRequest
    \/ NewEvents
    \/ WindowEventArm
    \/ MainEventsCleared
    \/ RedrawRequested
    \/ RedrawEventsCleared
    \/ LoopDestroyed
    \/ WhileLoop

Spec == Init /\ [][Next]_vars

\* The loop polls: a tick is always started and every delivered event is
\* handled, so the closure's steps are weakly fair; the window system's are not.
LiveSpec == Init /\ [][Next]_vars /\ WF_vars(Closure)

TypeOK ==
    /\ pc \in {"NewEvents", "WindowEvent", "RedrawRequested",
               "RedrawEventsCleared", "LoopDestroyed", "returned", "exited",
               "panicked"}
    /\ window.inner_size \in Sizes /\ window.scale_factor \in Scales
    /\ Len(pending) <= MaxPending
    /\ modifiers \in Mods
    /\ swap_chain \in Sizes
    /\ resized \in BOOLEAN /\ is_close \in BOOLEAN
    /\ control_flow \in {"Poll", "Exit"}

\* ------------------------------------------------------------ properties
Drawn == frame # NoFrame
AfterUpdate == pc \in {"RedrawRequested", "RedrawEventsCleared", "panicked"}
Terminated == pc \in {"exited", "panicked"}
LogicalOf(r) == with_physical_size(r.size, r.scale).logical_size

C2_OneRecreationAtLastSize ==
    /\ ~Drawn => tick_recreations = 0
    /\ (Drawn /\ tick_resizes # <<>>) =>
          /\ tick_recreations = 1
          /\ frame.recreated
          /\ frame.surface = tick_resizes[Len(tick_resizes)]

C2_Witness ==
    /\ Drawn
    /\ Len(tick_resizes) >= 2
    /\ tick_resizes[1] # tick_resizes[Len(tick_resizes)]

\* C3: handling a close request sets the closed flag and the Exit control
\* flow, which stays Exit until run_return reports the loop destroyed; once
\* it has, no frame is drawn.
C3_NoDrawAfterTerminal ==
    /\ [](close_handled => (is_close /\ (loop_destroyed \/ control_flow = "Exit")))
    /\ [][loop_destroyed => (frame' = frame \/ frame' = NoFrame)]_vars

\* the loop has exited after a redraw completed in the closing tick
C3_Witness ==
    /\ pc = "exited"
    /\ loop_destroyed
    /\ is_close

\* C4: every translation of a window event is handed the value of the most
\* recent ModifiersChanged event handled so far, the event's own included
\* (the default state if there was none).
C4_ModifiersCurrent ==
    /\ modifiers = latest_modifiers
    /\ translated # None => translated.modifiers = latest_modifiers

C4_Witness ==
    /\ translated # None
    /\ translated.event.type = "KeyboardInput"
    /\ translated.modifiers # 0
    /\ pending = <<>>

\* C5: a failed frame acquisition is fatal: that draw records no render
\* pass, submits nothing and sets no cursor icon, and no later closure step
\* changes the program.
C5_AcquireFailureFatal ==
    /\ []((Drawn /\ ~frame.acquired) => frame.calls = <<"get_next_texture">>)
    /\ [][(Drawn /\ ~frame.acquired) => UNCHANGED <<pc, prog, tick>>]_vars

C5_Witness ==
    /\ Drawn
    /\ ~frame.acquired
    /\ frame.recreated
    /\ pc = "panicked"

\* C6: the closed flag, the Exit control flow and the end of the loop are
\* reached only after a close request has been handled.
C6_OnlyCloseTerminates ==
    (is_close \/ control_flow = "Exit" \/ loop_destroyed
       \/ pc \in {"LoopDestroyed", "returned", "exited"}) => close_handled

C6_Witness ==
    /\ ~close_handled
    /\ ~is_close
    /\ Drawn
    /\ frame.acquired
    /\ resized
    /\ modifiers # 0
    /\ translated # None
    /\ translated.event.type = "KeyboardInput"

\* C7: a tick updates the GUI state exactly once, after all its window
\* events were dispatched, with the logical size of the last resize handled
\* (the initial window size if none), and requests a redraw.
C7_OneUpdatePerTick ==
    /\ tick_updates = (IF AfterUpdate THEN 1 ELSE 0)
    /\ AfterUpdate =>
          /\ pending = <<>>
          /\ state.events = <<>>
          /\ state.size = LogicalOf(last_resize)
    /\ pc = "RedrawRequested" => redraw_requested

C7_Witness ==
    /\ pc = "RedrawRequested"
    /\ tick_resizes # <<>>
    /\ state.size # <<FrameWidth, FrameHeight>>
    /\ translated # None

\* C8 (as claimed): a draw recreates the surface only if a resize event
\* was handled since the surface was last created or recreated.
C8_RecreateOnlyWhenDirty ==
    (Drawn /\ frame.recreated) => frame.was_dirty

\* C9: once a close request has been handled the loop ends with the closed
\* flag set (main returns, or the process aborts in the closing draw), also
\* when later events of the batch set the control flow to Poll; the close
\* request itself is handed to the translation and, if translated, queued.
C9_CloseEventuallyExits ==
    /\ close_handled ~> (Terminated /\ is_close)
    /\ [][(pc = "WindowEvent" /\ pending # <<>> /\ Head(pending) = CloseRequested
             /\ pending' = Tail(pending))
          => /\ translated'.event = CloseRequested
             /\ translated'.result # None =>
                  state'.events = Append(state.events, translated'.result)]_vars

\* the loop has exited although an event was dispatched after the close request
C9_Witness ==
    /\ pc = "exited"
    /\ is_close
    /\ translated # None
    /\ translated.event.type # "CloseRequested"

\* C10 (as claimed): at every draw the viewport handed to the backend has
\* the surface's physical size and the window's current scale factor.
C10_ViewportMatchesSurface ==
    Drawn =>
      /\ frame.viewport.physical_size = frame.surface
      /\ frame.viewport.scale_factor = frame.window.scale_factor
====
